---- MODULE Spec2Model ----
(***************************************************************************)
(* Smart_Poly_Culture, app.py: a chat endpoint that turns free text into   *)
(* writes of a 5x5 watering-status grid.  A text is a sequence of          *)
(* one-character strings, the regular expressions and difflib's matcher    *)
(* are computed character by character, and the grid is a function from    *)
(* zero-based row and column to {0, 1, 2}.                                 *)
(***************************************************************************)
EXTENDS Integers, Sequences, FiniteSets, TLC

ROWS == 5
COLS == 5

Rows == 0 .. (ROWS - 1)
Cols == 0 .. (COLS - 1)

plant_matrix ==
  << <<"Be", "Ba", "Ca", "Bt", "To">>,
     <<"To", "Bt", "Ba", "Be", "Ca">>,
     <<"To", "Bt", "Be", "Ba", "Ca">>,
     <<"Bt", "Ba", "To", "Be", "Ca">>,
     <<"Ba", "Be", "Ca", "To", "Bt">> >>

\* plant_matrix[r, c] with the zero-based indices of the code
PlantAt(r, c) == plant_matrix[r + 1][c + 1]

\* the dict in insertion order: <<name, code>>
plant_map ==
  << <<"basil", "Ba">>, <<"beans", "Be">>, <<"beetroot", "Bt">>,
     <<"carrot", "Ca">>, <<"tomato", "To">>, <<"all", "all">> >>

\* the dict in insertion order: <<surface form, code>>
PLANT_SYNONYMS ==
  << <<<<"b","a","s","i","l">>, "Ba">>, <<<<"h","e","r","b">>, "Ba">>, <<<<"b","a","s","i","l","s">>, "Ba">>,
     <<<<"b","e","a","n","s">>, "Be">>, <<<<"b","e","a","n">>, "Be">>, <<<<"g","r","e","e","n"," ","b","e","a","n","s">>, "Be">>,
     <<<<"b","e","e","t","r","o","o","t">>, "Bt">>, <<<<"b","e","e","t">>, "Bt">>, <<<<"b","e","e","t","s">>, "Bt">>,
     <<<<"c","a","r","r","o","t">>, "Ca">>, <<<<"c","a","r","r","o","t","s">>, "Ca">>,
     <<<<"t","o","m","a","t","o">>, "To">>, <<<<"t","o","m","a","t","o","e","s">>, "To">>, <<<<"t","o","m","o","t","o">>, "To">> >>

\* Python's None, for a bed index that is absent
None == -1

-----------------------------------------------------------------------------
(* Characters: str.lower(), and the classes \s, \d, \w and [a-zA-Z] of re.  *)

LowerCase == <<"a","b","c","d","e","f","g","h","i","j","k","l","m","n","o","p","q","r","s","t","u","v","w","x","y","z">>
UpperCase == <<"A","B","C","D","E","F","G","H","I","J","K","L","M","N","O","P","Q","R","S","T","U","V","W","X","Y","Z">>
Digits == <<"0","1","2","3","4","5","6","7","8","9">>

LowerSet == {LowerCase[i] : i \in 1 .. Len(LowerCase)}
UpperSet == {UpperCase[i] : i \in 1 .. Len(UpperCase)}
DigitSet == {Digits[i] : i \in 1 .. Len(Digits)}

LowerOf == [c \in UpperSet |-> LowerCase[CHOOSE i \in 1 .. Len(UpperCase) : UpperCase[i] = c]]
DigitVal == [c \in DigitSet |-> (CHOOSE i \in 1 .. Len(Digits) : Digits[i] = c) - 1]

lower(text) == [i \in 1 .. Len(text) |-> IF text[i] \in UpperSet THEN LowerOf[text[i]] ELSE text[i]]

IsSpace(c) == c \in {" ", "\n", "\t"}
IsDigit(c) == c \in DigitSet
IsAlpha(c) == c \in LowerSet \/ c \in UpperSet
IsWordChar(c) == IsAlpha(c) \/ IsDigit(c) \/ c = "_"

\* the literal lit stands in s at position i
MatchAt(s, i, lit) ==
  /\ i >= 1
  /\ i + Len(lit) - 1 <= Len(s)
  /\ \A k \in 1 .. Len(lit) : s[i + k - 1] = lit[k]

\* `lit in s` of Python
Contains(s, lit) == \E i \in 1 .. (Len(s) - Len(lit) + 1) : MatchAt(s, i, lit)

\* \b just before position i (i in 1 .. Len(s) + 1)
WordBoundary(s, i) ==
  LET before == i - 1 >= 1 /\ IsWordChar(s[i - 1])
      after == i <= Len(s) /\ IsWordChar(s[i])
  IN before # after

\* re.search(r"\b" + kw + r"\b", s), kw a literal
SearchWord(s, kw) ==
  \E i \in 1 .. (Len(s) - Len(kw) + 1) :
     /\ MatchAt(s, i, kw)
     /\ WordBoundary(s, i)
     /\ WordBoundary(s, i + Len(kw))

\* re.search(r"\b" + w1 + r"\s+" + w2 + r"\b", s)
SearchPhrase(s, w1, w2) ==
  \E i \in 1 .. Len(s) :
     /\ MatchAt(s, i, w1)
     /\ WordBoundary(s, i)
     /\ \E j \in (i + Len(w1) + 1) .. Len(s) :
           /\ \A k \in (i + Len(w1)) .. (j - 1) : IsSpace(s[k])
           /\ MatchAt(s, j, w2)
           /\ WordBoundary(s, j + Len(w2))

\* re.search(r"\bwater\b.*\bon\b", s): "." does not match a newline
SearchWaterOn(s) ==
  \E i \in 1 .. Len(s) :
     /\ MatchAt(s, i, <<"w","a","t","e","r">>)
     /\ WordBoundary(s, i)
     /\ WordBoundary(s, i + 5)
     /\ \E j \in (i + 5) .. Len(s) :
           /\ \A k \in (i + 5) .. (j - 1) : s[k] # "\n"
           /\ MatchAt(s, j, <<"o","n">>)
           /\ WordBoundary(s, j)
           /\ WordBoundary(s, j + 2)

-----------------------------------------------------------------------------
(* classify_intent                                                         *)

on_keywords == << <<"s","t","a","r","t">>, <<"a","c","t","i","v","a","t","e">>, <<"o","p","e","n">>, <<"b","e","g","i","n">>, <<"e","n","a","b","l","e">>, <<"o","n">> >>
off_keywords == << <<"s","t","o","p">>, <<"d","e","a","c","t","i","v","a","t","e">>, <<"c","l","o","s","e">>, <<"e","n","d">>, <<"d","i","s","a","b","l","e">>, <<"o","f","f">> >>
status_keywords == << <<"s","t","a","t","u","s">>, <<"c","h","e","c","k">>, <<"h","o","w"," ","a","r","e">>, <<"w","h","a","t"," ","i","s">>, <<"r","e","p","o","r","t">> >>

\* KeywordCount as the number of matches of the keywords: C9 fails on it
KeywordCount_Matches(keywords, s) ==
  Cardinality({o \in (1 .. Len(keywords)) \X (1 .. Len(s)) :
                 /\ MatchAt(s, o[2], keywords[o[1]])
                 /\ WordBoundary(s, o[2])
                 /\ WordBoundary(s, o[2] + Len(keywords[o[1]]))})

\* sum(1 for keyword in keywords if re.search(...)): the keywords that occur
KeywordCount(keywords, s) ==
  Cardinality({i \in 1 .. Len(keywords) : SearchWord(s, keywords[i])})

IntentFromCounts(on_count, off_count, status_count) ==
  IF on_count > off_count /\ on_count > status_count THEN "TurnOnWater"
  ELSE IF off_count > on_count /\ off_count > status_count THEN "TurnOffWater"
  ELSE IF status_count > on_count /\ status_count > off_count THEN "GetStatus"
  ELSE "Unknown"

ExplicitOff(text_lower) ==
  SearchPhrase(text_lower, <<"t","u","r","n">>, <<"o","f","f">>) \/ SearchPhrase(text_lower, <<"t","u","r","n">>, <<"o","f">>)

ExplicitOn(text_lower) ==
  SearchPhrase(text_lower, <<"t","u","r","n">>, <<"o","n">>) \/ SearchWaterOn(text_lower)

classify_intent(text) ==
  LET text_lower == lower(text)
  IN IF ExplicitOff(text_lower) THEN "TurnOffWater"
     ELSE IF ExplicitOn(text_lower) THEN "TurnOnWater"
     ELSE IntentFromCounts(KeywordCount(on_keywords, text_lower),
                           KeywordCount(off_keywords, text_lower),
                           KeywordCount(status_keywords, text_lower))

-----------------------------------------------------------------------------
(* parse_location                                                          *)

\* the first position at or after k that holds no whitespace (Len(s) + 1 at the end)
SkipSpace(s, k) ==
  CHOOSE j \in k .. (Len(s) + 1) :
     /\ j = Len(s) + 1 \/ ~IsSpace(s[j])
     /\ \A t \in k .. (j - 1) : IsSpace(s[t])

\* the last position of the run of digits that starts at j
DigitRunEnd(s, j) ==
  CHOOSE e \in j .. Len(s) :
     /\ \A t \in j .. e : IsDigit(s[t])
     /\ e = Len(s) \/ ~IsDigit(s[e + 1])

RECURSIVE IntOf(_, _, _)
\* int(s[j..e])
IntOf(s, j, e) ==
  IF e < j THEN 0 ELSE 10 * IntOf(s, j, e - 1) + DigitVal[s[e]]

\* the positions where bed\s+(\d+) matches
BedDigitAt(s) ==
  {i \in 1 .. Len(s) :
     /\ MatchAt(s, i, <<"b","e","d">>)
     /\ LET j == SkipSpace(s, i + 3)
        IN j > i + 3 /\ j <= Len(s) /\ IsDigit(s[j])}

words_to_num ==
  << <<<<"o","n","e">>, 1>>, <<<<"t","w","o">>, 2>>, <<<<"t","h","r","e","e">>, 3>>, <<<<"f","o","u","r">>, 4>>, <<<<"f","i","v","e">>, 5>> >>

\* the alternatives of (one|two|three|four|five) that stand at position j, in order
WordsAt(s, j) == {w \in 1 .. Len(words_to_num) : MatchAt(s, j, words_to_num[w][1])}

\* the positions where bed\s+(one|two|three|four|five) matches
BedWordAt(s) ==
  {i \in 1 .. Len(s) :
     /\ MatchAt(s, i, <<"b","e","d">>)
     /\ LET j == SkipSpace(s, i + 3)
        IN j > i + 3 /\ WordsAt(s, j) # {}}

Min(S) == CHOOSE x \in S : \A y \in S : x <= y
Max(S) == CHOOSE x \in S : \A y \in S : x >= y

\* the index idx if it is a row, otherwise
InRows(idx, otherwise) == IF 0 <= idx /\ idx < ROWS THEN idx ELSE otherwise

\* words_to_num.get(m2.group(1), 1) - 1 for the "bed" at position i
WordIndexAt(s, i) == words_to_num[Min(WordsAt(s, SkipSpace(s, i + 3)))][2] - 1

\* lines 82-87: the number-word pattern at its first match, then None
WordMatch(s, m2) == IF m2 # {} THEN InRows(WordIndexAt(s, Min(m2)), None) ELSE None

ParseBedWord(text_lower) == WordMatch(text_lower, BedWordAt(text_lower))

\* int(m.group(1)) - 1 for the digits that start at position j
DigitIndexAt(s, j) == IntOf(s, j, DigitRunEnd(s, j)) - 1

\* DigitMatch returning None for a number that is no row: C10 fails on it
DigitMatch_NoneOutOfRange(s, m) ==
  IF m # {}
  THEN InRows(DigitIndexAt(s, SkipSpace(s, Min(m) + 3)), None)
  ELSE ParseBedWord(s)

\* lines 75-79: the digit pattern at its first match; the rest of the function
\* when it matches nothing or matches a number that is no row
DigitMatch(s, m) ==
  IF m # {}
  THEN InRows(DigitIndexAt(s, SkipSpace(s, Min(m) + 3)), ParseBedWord(s))
  ELSE ParseBedWord(s)

parse_location(text) == DigitMatch(lower(text), BedDigitAt(lower(text)))

-----------------------------------------------------------------------------
(* parse_intensity                                                         *)

shower_keywords == << <<"s","h","o","w","e","r">>, <<"h","e","a","v","y">>, <<"h","i","g","h">>, <<"f","a","s","t">>, <<"s","p","r","a","y">>, <<"b","u","l","k">>, <<"l","o","t","s">> >>
drip_keywords == << <<"d","r","i","p">>, <<"s","l","o","w">>, <<"l","i","g","h","t">>, <<"g","e","n","t","l","e">> >>

\* any(k in s for k in keywords)
AnyIn(keywords, s) == \E i \in 1 .. Len(keywords) : Contains(s, keywords[i])

\* parse_intensity with the drip keywords tested first: C3 fails on it
parse_intensity_DripFirst(text) ==
  LET text_lower == lower(text)
  IN IF AnyIn(drip_keywords, text_lower) THEN 1
     ELSE IF AnyIn(shower_keywords, text_lower) THEN 2
     ELSE 1

parse_intensity(text) ==
  LET text_lower == lower(text)
  IN IF AnyIn(shower_keywords, text_lower) THEN 2
     ELSE IF AnyIn(drip_keywords, text_lower) THEN 1
     ELSE 1

-----------------------------------------------------------------------------
(* difflib.get_close_matches(word, possibilities, n=1, cutoff=0.75), as    *)
(* called at line 124: SequenceMatcher with a = the possibility and        *)
(* b = the word, no junk (the texts are shorter than 200).                 *)

MinOf(x, y) == IF x <= y THEN x ELSE y

\* the number of positions from (i, j) on which a and b agree, inside a[..ahi-1], b[..bhi-1]
RunLen(a, b, i, j, ahi, bhi) ==
  LET lim == MinOf(ahi - i, bhi - j)
  IN CHOOSE k \in 0 .. lim :
        /\ \A t \in 0 .. (k - 1) : a[i + t] = b[j + t]
        /\ k = lim \/ a[i + k] # b[j + k]

\* j2len of find_longest_match, by the start of the block: the length of the
\* common run from each cell of a[alo..ahi-1] x b[blo..bhi-1]
RunTable(a, b, alo, ahi, blo, bhi) ==
  [p \in (alo .. (ahi - 1)) \X (blo .. (bhi - 1)) |-> RunLen(a, b, p[1], p[2], ahi, bhi)]

\* of the blocks of size bestsize that start at besti in a, the earliest in b
EarliestInB(run, bestsize, besti) ==
  <<besti, Min({p[2] : p \in {q \in DOMAIN run : q[1] = besti /\ run[q] = bestsize}}), bestsize>>

\* of the blocks of size bestsize, the earliest in a
EarliestInA(run, bestsize, alo, blo) ==
  IF bestsize = 0 THEN <<alo, blo, 0>>
  ELSE EarliestInB(run, bestsize, Min({p[1] : p \in {q \in DOMAIN run : run[q] = bestsize}}))

LongestIn(run, alo, blo) ==
  IF DOMAIN run = {} THEN <<alo, blo, 0>>
  ELSE EarliestInA(run, Max({run[p] : p \in DOMAIN run}), alo, blo)

\* SequenceMatcher.find_longest_match on a[alo..ahi-1], b[blo..bhi-1]: the longest
\* block, the earliest in a, then the earliest in b; <<alo, blo, 0>> when none
find_longest_match(a, b, alo, ahi, blo, bhi) ==
  LongestIn(RunTable(a, b, alo, ahi, blo, bhi), alo, blo)

RECURSIVE MatchCount(_, _, _, _, _, _)
RECURSIVE AroundBlock(_, _, _, _, _, _, _)
\* the sum of the sizes of get_matching_blocks() on a[alo..ahi-1], b[blo..bhi-1]
MatchCount(a, b, alo, ahi, blo, bhi) ==
  AroundBlock(a, b, alo, ahi, blo, bhi, find_longest_match(a, b, alo, ahi, blo, bhi))

\* the block blk, and the blocks to its left and to its right
AroundBlock(a, b, alo, ahi, blo, bhi, blk) ==
  IF blk[3] = 0 THEN 0
  ELSE blk[3]
       + (IF alo < blk[1] /\ blo < blk[2]
          THEN MatchCount(a, b, alo, blk[1], blo, blk[2]) ELSE 0)
       + (IF blk[1] + blk[3] < ahi /\ blk[2] + blk[3] < bhi
          THEN MatchCount(a, b, blk[1] + blk[3], ahi, blk[2] + blk[3], bhi) ELSE 0)

\* the matches of ratio(): ratio = 2.0 * matches / (len(a) + len(b))
RatioMatches(a, b) == MatchCount(a, b, 1, Len(a) + 1, 1, Len(b) + 1)

\* the matches of quick_ratio(): the size of the multiset intersection
QuickMatches(a, b) ==
  LET chars == {a[i] : i \in 1 .. Len(a)}
      count(s, c) == Cardinality({i \in 1 .. Len(s) : s[i] = c})
      RECURSIVE Sum(_)
      Sum(S) == IF S = {} THEN 0
                ELSE LET c == CHOOSE x \in S : TRUE
                     IN MinOf(count(a, c), count(b, c)) + Sum(S \ {c})
  IN Sum(chars)

\* 2.0 * matches / length >= cutoff, with cutoff = 0.75 = 3/4
AtLeastCutoff(matches, length) == 8 * matches >= 3 * length

\* the three tests of get_close_matches, in its order
IsClose(x, word) ==
  LET length == Len(x) + Len(word)
  IN /\ AtLeastCutoff(MinOf(Len(x), Len(word)), length)
     /\ AtLeastCutoff(QuickMatches(x, word), length)
     /\ AtLeastCutoff(RatioMatches(x, word), length)

CharOrd(c) ==
  IF c \in LowerSet THEN CHOOSE i \in 1 .. Len(LowerCase) : LowerCase[i] = c ELSE 0

\* x < y for Python strings of lower-case letters and spaces
StrLess(x, y) ==
  \E k \in 1 .. (Len(y)) :
     /\ k <= Len(x) + 1
     /\ \A t \in 1 .. (k - 1) : x[t] = y[t]
     /\ k = Len(x) + 1 \/ CharOrd(x[k]) < CharOrd(y[k])

\* (score, x) < (score, y) for the scores 2.0 * mx / lx and 2.0 * my / ly
PairLess(mx, lx, x, my, ly, y) ==
  \/ mx * ly < my * lx
  \/ mx * ly = my * lx /\ StrLess(x, y)

ScoreLess(x, y, word) ==
  PairLess(RatioMatches(x, word), Len(x) + Len(word), x,
           RatioMatches(y, word), Len(y) + Len(word), y)

\* heapq.nlargest(1, result): the index of the largest (score, x), 0 when result is empty
Largest(possibilities, word, result) ==
  IF result = {} THEN 0
  ELSE CHOOSE k \in result :
         \A i \in result \ {k} : ScoreLess(possibilities[i], possibilities[k], word)

\* the index in possibilities of the one close match, 0 when there is none
get_close_matches(word, possibilities) ==
  Largest(possibilities, word,
          {i \in 1 .. Len(possibilities) : IsClose(possibilities[i], word)})

-----------------------------------------------------------------------------
(* extract_plants                                                          *)

\* the last position of the run of letters that starts at i
AlphaRunEnd(s, i) ==
  CHOOSE e \in i .. Len(s) :
     /\ \A t \in i .. e : IsAlpha(s[t])
     /\ e = Len(s) \/ ~IsAlpha(s[e + 1])

RECURSIVE TokensFrom(_, _)
\* re.findall(r"[a-zA-Z]+", s) from position i on
TokensFrom(s, i) ==
  IF i > Len(s) THEN <<>>
  ELSE IF ~IsAlpha(s[i]) THEN TokensFrom(s, i + 1)
  ELSE LET e == AlphaRunEnd(s, i)
       IN <<SubSeq(s, i, e)>> \o TokensFrom(s, e + 1)

synonyms_list == [i \in 1 .. Len(PLANT_SYNONYMS) |-> PLANT_SYNONYMS[i][1]]

\* the index of token in PLANT_SYNONYMS, 0 when it is no key
SynonymIndex(token) ==
  IF \E i \in 1 .. Len(PLANT_SYNONYMS) : PLANT_SYNONYMS[i][1] = token
  THEN CHOOSE i \in 1 .. Len(PLANT_SYNONYMS) : PLANT_SYNONYMS[i][1] = token
  ELSE 0

InSeq(x, seq) == \E i \in 1 .. Len(seq) : seq[i] = x

\* lines 114-118 and 127-131: the first name of plant_map with this code that is
\* not "all" is appended unless it is there already
AppendPlant(plants_found, plant_code) ==
  LET names == {i \in 1 .. Len(plant_map) : plant_map[i][2] = plant_code /\ plant_map[i][1] # "all"}
  IN IF names = {} THEN plants_found
     ELSE LET original_name == plant_map[Min(names)][1]
          IN IF InSeq(original_name, plants_found) THEN plants_found
             ELSE Append(plants_found, original_name)

\* lines 112-118 for the index i of the token in PLANT_SYNONYMS, 0 when it is no key
AppendExact(plants_found, i) ==
  IF i # 0 THEN AppendPlant(plants_found, PLANT_SYNONYMS[i][2]) ELSE plants_found

RECURSIVE ExactPass(_, _, _)
\* lines 111-118
ExactPass(tokens, k, plants_found) ==
  IF k > Len(tokens) THEN plants_found
  ELSE ExactPass(tokens, k + 1, AppendExact(plants_found, SynonymIndex(tokens[k])))

RECURSIVE FuzzyPass(_, _, _)
\* lines 123-131
FuzzyPass(tokens, k, plants_found) ==
  IF k > Len(tokens) THEN plants_found
  ELSE FuzzyPass(tokens, k + 1,
                 AppendExact(plants_found, get_close_matches(tokens[k], synonyms_list)))

all_keywords == << <<"a","l","l">>, <<"e","v","e","r","y","t","h","i","n","g">>, <<"e","v","e","r","y"," ","p","l","a","n","t">>, <<"w","h","o","l","e"," ","g","a","r","d","e","n">>, <<"e","n","t","i","r","e"," ","g","a","r","d","e","n">> >>

\* line 121
WithFuzzy(tokens, plants_found) ==
  IF plants_found = <<>> /\ tokens # <<>> THEN FuzzyPass(tokens, 1, <<>>) ELSE plants_found

\* WithAllKeyword without `and not plants_found`: C8 fails on it
WithAllKeyword_Always(text_lower, plants_found) ==
  IF AnyIn(all_keywords, text_lower) THEN <<"all">> ELSE plants_found

\* lines 135-136
WithAllKeyword(text_lower, plants_found) ==
  IF AnyIn(all_keywords, text_lower) /\ plants_found = <<>> THEN <<"all">> ELSE plants_found

\* lines 139-140
WithDefault(plants_found) == IF plants_found = <<>> THEN <<"all">> ELSE plants_found

PlantsIn(text_lower, tokens) ==
  WithDefault(WithAllKeyword(text_lower, WithFuzzy(tokens, ExactPass(tokens, 1, <<>>))))

extract_plants(text) == PlantsIn(lower(text), TokensFrom(lower(text), 1))

-----------------------------------------------------------------------------
(* process_command                                                         *)

\* np.zeros((ROWS, COLS), dtype=int)
AllOff == [r \in Rows |-> [c \in Cols |-> 0]]

\* plant_map.get(name, None), "" standing for None
CodeOf(name) ==
  IF \E i \in 1 .. Len(plant_map) : plant_map[i][1] = name
  THEN plant_map[CHOOSE i \in 1 .. Len(plant_map) : plant_map[i][1] = name][2]
  ELSE ""

\* lines 146-147
PlantCodes(plant_names) ==
  SelectSeq([i \in 1 .. Len(plant_names) |-> CodeOf(plant_names[i])], LAMBDA code : code # "")

\* k.capitalize() for the keys of plant_map
pretty ==
  << <<"basil", "Basil">>, <<"beans", "Beans">>, <<"beetroot", "Beetroot">>,
     <<"carrot", "Carrot">>, <<"tomato", "Tomato">>, <<"all", "All">> >>

\* pretty.get(name.lower(), name): the names are lower case already
PrettyOf(name) ==
  IF \E i \in 1 .. Len(pretty) : pretty[i][1] = name
  THEN pretty[CHOOSE i \in 1 .. Len(pretty) : pretty[i][1] = name][2]
  ELSE name

\* lines 170 and 187, the list that is joined with ", "
PrettyNames(plant_names) ==
  LET named == SelectSeq(plant_names, LAMBDA name : name # "all")
  IN [i \in 1 .. Len(named) |-> PrettyOf(named[i])]

\* WriteAll without the row: C7 fails on it
WriteAll_WholeGrid(status, value, bed_index) ==
  [r \in Rows |-> [c \in Cols |-> value]]

\* water_status.fill(v) when bed_index is None, water_status[bed_index, :] = v otherwise
WriteAll(status, value, bed_index) ==
  [r \in Rows |-> [c \in Cols |->
     IF bed_index = None \/ r = bed_index THEN value ELSE status[r][c]]]

\* WritePlant without the restriction to the row: C2 fails on it
WritePlant_AnyRow(status, plant_code, value, bed_index) ==
  [r \in Rows |-> [c \in Cols |->
     IF PlantAt(r, c) = plant_code THEN value ELSE status[r][c]]]

\* WritePlant switching off a cell that holds the value already: C5 fails on it
WritePlant_Toggle(status, plant_code, value, bed_index) ==
  [r \in Rows |-> [c \in Cols |->
     IF PlantAt(r, c) = plant_code /\ (bed_index = None \/ r = bed_index)
     THEN (IF status[r][c] = value THEN 0 ELSE value) ELSE status[r][c]]]

\* one iteration of the loop over plant_codes: lines 164-169 and 182-186
WritePlant(status, plant_code, value, bed_index) ==
  [r \in Rows |-> [c \in Cols |->
     IF PlantAt(r, c) = plant_code /\ (bed_index = None \/ r = bed_index)
     THEN value ELSE status[r][c]]]

RECURSIVE WritePlants(_, _, _, _, _)
\* the loop over plant_codes from its k-th iteration on
WritePlants(status, plant_codes, k, value, bed_index) ==
  IF k > Len(plant_codes) THEN status
  ELSE WritePlants(WritePlant(status, plant_codes[k], value, bed_index),
                   plant_codes, k + 1, value, bed_index)

\* CountOf with >= for ==: C1 fails on it
CountOf_AtLeast(status, value) ==
  Cardinality({p \in Rows \X Cols : status[p[1]][p[2]] >= value})

\* np.sum(water_status == value)
CountOf(status, value) == Cardinality({p \in Rows \X Cols : status[p[1]][p[2]] = value})

\* a reply, by the fixed part of its sentence and the values formatted into it
Reply(sentence) ==
  [text |-> sentence, names |-> <<>>, level |-> "", drip |-> 0, shower |-> 0, total |-> 0]

LevelName(intensity) == IF intensity = 2 THEN "SHOWER" ELSE "DRIP"

\* lines 156-171
TurnOn(plant_names, plant_codes, intensity, bed_index, status) ==
  IF InSeq("all", plant_codes)
  THEN [status |-> WriteAll(status, intensity, bed_index),
        reply |-> [Reply("Turning on water for all plants")
                     EXCEPT !.level = LevelName(intensity)]]
  ELSE [status |-> WritePlants(status, plant_codes, 1, intensity, bed_index),
        reply |-> [Reply("Turning on water for")
                     EXCEPT !.names = PrettyNames(plant_names),
                            !.level = LevelName(intensity)]]

\* TurnOff without the bed index: C4 fails on it
TurnOff_WholeGrid(plant_names, plant_codes, bed_index, status) ==
  IF InSeq("all", plant_codes)
  THEN [status |-> WriteAll(status, 0, None),
        reply |-> Reply("Turning off water for all plants.")]
  ELSE [status |-> WritePlants(status, plant_codes, 1, 0, None),
        reply |-> [Reply("Turning off water for") EXCEPT !.names = PrettyNames(plant_names)]]

\* lines 174-188
TurnOff(plant_names, plant_codes, bed_index, status) ==
  IF InSeq("all", plant_codes)
  THEN [status |-> WriteAll(status, 0, bed_index),
        reply |-> Reply("Turning off water for all plants.")]
  ELSE [status |-> WritePlants(status, plant_codes, 1, 0, bed_index),
        reply |-> [Reply("Turning off water for") EXCEPT !.names = PrettyNames(plant_names)]]

\* lines 192-195
GetStatus(status) ==
  [status |-> status,
   reply |-> [Reply("Current watering status")
                EXCEPT !.drip = CountOf(status, 1),
                       !.shower = CountOf(status, 2),
                       !.total = ROWS * COLS]]

\* Execute with the turn-off branch as the last else: C6 fails on it
Execute_ElseOff(intent, plant_names, plant_codes, intensity, bed_index, status) ==
  IF intent = "TurnOnWater"
  THEN TurnOn(plant_names, plant_codes, intensity, bed_index, status)
  ELSE IF intent = "GetStatus"
  THEN GetStatus(status)
  ELSE TurnOff(plant_names, plant_codes, bed_index, status)

\* lines 155-198, for the codes of line 147
Execute(intent, plant_names, plant_codes, intensity, bed_index, status) ==
  IF intent = "TurnOnWater"
  THEN TurnOn(plant_names, plant_codes, intensity, bed_index, status)
  ELSE IF intent = "TurnOffWater"
  THEN TurnOff(plant_names, plant_codes, bed_index, status)
  ELSE IF intent = "GetStatus"
  THEN GetStatus(status)
  ELSE [status |-> status, reply |-> Reply("Sorry, I didn't understand that command.")]

\* lines 149-150, then the rest
Recognized(intent, plant_names, plant_codes, intensity, bed_index, status) ==
  IF plant_codes = <<>>
  THEN [status |-> status, reply |-> Reply("Sorry, I don't recognize those plants.")]
  ELSE Execute(intent, plant_names, plant_codes, intensity, bed_index, status)

\* the grid after the call and the string it returns
process_command(intent, plant_names, intensity, bed_index, status) ==
  Recognized(intent, plant_names, PlantCodes(plant_names), intensity, bed_index, status)

-----------------------------------------------------------------------------
(* ask                                                                     *)

\* What request.get_json() gives: null, an object without "message", an object
\* whose message is a string, or one whose message is a number.
NullBody == [kind |-> "null", message |-> <<>>, number |-> 0]
NoMessage == [kind |-> "object", message |-> <<>>, number |-> 0]
TextMessage(t) == [kind |-> "text", message |-> t, number |-> 0]
NumberMessage(n) == [kind |-> "number", message |-> <<>>, number |-> n]

\* lines 224-227
Command(intent, user_input) ==
  [intent |-> intent,
   plant_names |-> extract_plants(user_input),
   bed_index |-> parse_location(user_input),
   intensity |-> IF intent = "TurnOnWater" THEN parse_intensity(user_input) ELSE 0]

Understand(user_input) == Command(classify_intent(user_input), user_input)

NotUnderstood == [intent |-> "", plant_names |-> <<>>, bed_index |-> None, intensity |-> 0]

\* `not user_input` for data.get("message", "")
Falsy(data) ==
  \/ data.kind = "object"
  \/ data.kind = "text" /\ data.message = <<>>
  \/ data.kind = "number" /\ data.number = 0

\* lines 224-230: the text message, once understood as u
Answer(u, status) ==
  [parsed |-> u] @@ process_command(u.intent, u.plant_names, u.intensity, u.bed_index, status)

\* The handler on the grid `status`; understood is lines 224-227 on the message,
\* used when the message is a text.  Gives the grid after the request, the reply,
\* and what the handler extracted.
ask(data, status, understood) ==
  IF data.kind = "null"
  THEN \* data.get raises, line 216
       [status |-> status, reply |-> Reply("Sorry, I encountered an error."),
        parsed |-> NotUnderstood]
  ELSE IF Falsy(data)
  THEN [status |-> status, reply |-> Reply("Please send a message."),
        parsed |-> NotUnderstood]
  ELSE IF data.kind # "text"
  THEN \* text.lower() raises in classify_intent, line 46
       [status |-> status, reply |-> Reply("Sorry, I encountered an error."),
        parsed |-> NotUnderstood]
  ELSE Answer(understood, status)

-----------------------------------------------------------------------------
(* The state: the module-level grid, and what the last request was and got *)

VARIABLES
  water_status,   \* the grid, line 23
  prev_status,    \* the grid as the last request found it
  request,        \* the last request: its route, its body, what ask extracted
  response,       \* the body of the last response
  served,         \* the number of requests served
  repeated,       \* the last request was the same /ask body as the one before it
  posted,         \* SpecIntent, SpecLocation, SpecPlants: the message that is posted
  threads         \* SpecConc: the two handlers in flight

vars == <<water_status, prev_status, request, response, served, repeated, posted, threads>>

NoRequest == [route |-> "", data |-> NullBody, parsed |-> NotUnderstood]
NoReply == Reply("")
NoThreads == <<>>

\* a and b with a blank between them, unless one is empty
Join(a, b) == IF a = <<>> THEN b ELSE IF b = <<>> THEN a ELSE a \o <<" ">> \o b

\* the parts a message of Spec is put together from: a verb, plants, a bed, a level
Verbs == << <<"t","u","r","n"," ","o","n">>, <<"t","u","r","n"," ","o","f","f">>, <<"s","t","a","t","u","s">>, <<"h","e","l","l","o">> >>
PlantWords == << <<>>, <<"b","a","s","i","l">>, <<"c","a","r","r","o","t"," ","a","n","d"," ","b","e","a","n","s">>, <<"a","l","l"," ","p","l","a","n","t","s">> >>
BedWords == << <<>>, <<"b","e","d"," ","2">>, <<"b","e","d"," ","f","i","v","e">> >>
LevelWords == << <<>>, <<"g","e","n","t","l","e">>, <<"l","i","g","h","t"," ","s","p","r","a","y">> >>

Messages ==
  {Join(Join(Join(Verbs[v], PlantWords[p]), BedWords[b]), LevelWords[l]) :
     v \in 1 .. Len(Verbs), p \in 1 .. Len(PlantWords),
     b \in 1 .. Len(BedWords), l \in 1 .. Len(LevelWords)}

Requests ==
  {TextMessage(m) : m \in Messages}
    \cup {NullBody, NoMessage, TextMessage(<<>>), NumberMessage(0), NumberMessage(7)}

MaxRequests == 2

\* lines 224-227 on every message of Messages
Understood == [m \in Messages |-> Understand(m)]
UnderstoodAt(data) ==
  IF data.kind = "text" /\ data.message \in DOMAIN Understood
  THEN Understood[data.message]
  ELSE NotUnderstood

Init ==
  /\ water_status = AllOff
  /\ prev_status = AllOff
  /\ request = NoRequest
  /\ response = NoReply
  /\ served = 0
  /\ repeated = FALSE
  /\ posted = <<>>
  /\ threads = NoThreads

\* the state after a POST /ask with the body data, given what the handler did
Served(data, done) ==
  /\ water_status' = done.status
  /\ response' = done.reply
  /\ request' = [route |-> "/ask", data |-> data, parsed |-> done.parsed]
  /\ prev_status' = water_status
  /\ repeated' = (request.route = "/ask" /\ request.data = data)
  /\ served' = served + 1
  /\ UNCHANGED <<posted, threads>>

Ask(data) ==
  /\ served < MaxRequests
  /\ Served(data, ask(data, water_status, UnderstoodAt(data)))

\* GET /get_status: jsonify(water_status.tolist())
get_status ==
  /\ served < MaxRequests
  /\ response' = [Reply("grid") EXCEPT !.names = water_status]
  /\ request' = [route |-> "/get_status", data |-> NullBody, parsed |-> NotUnderstood]
  /\ prev_status' = water_status
  /\ repeated' = FALSE
  /\ served' = served + 1
  /\ UNCHANGED <<water_status, posted, threads>>

Next ==
  \/ \E data \in Requests : Ask(data)
  \/ get_status

Spec == Init /\ [][Next]_vars

-----------------------------------------------------------------------------------------------------------------------------------------------------
(* SpecIntent, SpecLocation, SpecPlants: one text is posted to /ask on the  *)
(* all-OFF grid, a text made of fragments that the classifier, the location *)
(* parser or the plant extractor reacts to.                                 *)

IntentVocab ==
  << <<"t","u","r","n">>, <<"o","n">>, <<"o","f","f">>, <<"o","f">>, <<"w","a","t","e","r">>, <<"s","t","a","r","t">>, <<"S","T","O","P",",">>, <<"s","t","a","t","u","s">>,
     <<"h","o","w"," ","a","r","e">>, <<"\n","o","f","f">>, <<"r","e","t","u","r","n">>, <<"C","h","e","c","k">> >>
LocationVocab ==
  << <<"b","e","d"," ","2">>, <<"b","e","d"," ","9">>, <<"b","e","d"," ","0">>, <<"b","e","d"," ","t","w","o">>, <<"b","e","d"," ","f","i","v","e">>, <<"b","e","d">>, <<"4">>,
     <<"f","l","o","w","e","r","b","e","d">>, <<"B","e","d","\n","0","5">>, <<"t","h","r","e","e">>, <<"b","e","d"," ","f","o","u","r","t","e","e","n">>, <<"b","e","d"," "," ","1","2">> >>
PlantVocab ==
  << <<"b","a","s","i","l">>, <<"B","e","a","n","s">>, <<"c","a","r","r","o","t","s">>, <<"t","o","m","a","t","o","s">>, <<"b","e","e","n">>, <<"h","e","r","b">>, <<"a","l","l">>,
     <<"t","u","r","n">>, <<"o","n">>, <<"4","2">>, <<"e","v","e","r","y","t","h","i","n","g">>, <<"t","o","m","o","t","o",",">> >>

MaxFrags == 3

RECURSIVE JoinFrags(_, _, _)
\* the first k fragments that frags picks from vocab, with single blanks between them
JoinFrags(vocab, frags, k) ==
  IF k = 1 THEN vocab[frags[1]]
  ELSE JoinFrags(vocab, frags, k - 1) \o <<" ">> \o vocab[frags[k]]

\* the texts of 1 .. n fragments of vocab
TextsOf(vocab, n) ==
  {JoinFrags(vocab, frags, Len(frags)) :
     frags \in UNION {[1 .. k -> 1 .. Len(vocab)] : k \in 1 .. n}}

\* the process has started and the text that will be posted is one of texts
InitText(texts) ==
  /\ water_status = AllOff
  /\ prev_status = AllOff
  /\ request = NoRequest
  /\ response = NoReply
  /\ served = 0
  /\ repeated = FALSE
  /\ posted \in texts
  /\ threads = NoThreads

InitIntent == InitText(TextsOf(IntentVocab, MaxFrags))
InitLocation == InitText(TextsOf(LocationVocab, MaxFrags))
InitPlants == InitText(TextsOf(PlantVocab, MaxFrags))

PostText ==
  /\ served = 0
  /\ Served(TextMessage(posted), ask(TextMessage(posted), water_status, Understand(posted)))

NextText == PostText

SpecIntent == InitIntent /\ [][NextText]_vars
SpecLocation == InitLocation /\ [][NextText]_vars
SpecPlants == InitPlants /\ [][NextText]_vars

-----------------------------------------------------------------------------
(* SpecConc: two /ask handlers run at once on the shared grid.  A handler   *)
(* extracts its command without touching the grid; each water_status       *)
(* assignment (a fill, a row, the cells of one plant code) is one step.     *)

ConcMessages ==
  << <<"t","u","r","n"," ","o","n"," ","b","a","s","i","l"," ","c","a","r","r","o","t"," ","h","e","a","v","y">>, <<"t","u","r","n"," ","o","f","f"," ","b","a","s","i","l"," ","c","a","r","r","o","t">>, <<"t","u","r","n"," ","o","n"," ","c","a","r","r","o","t"," ","b","a","s","i","l">>,
     <<"t","u","r","n"," ","o","n"," ","b","e","d"," ","2">>, <<"t","u","r","n"," ","o","f","f"," ","b","e","a","n","s"," ","t","o","m","a","t","o"," ","b","e","d"," ","2">>, <<"s","t","a","t","u","s">> >>

Threads == {1, 2}
Other(t) == 3 - t

Received(m) ==
  [message |-> m, phase |-> "received", plant_codes |-> <<>>, value |-> 0,
   bed_index |-> None, k |-> 1, crossed |-> FALSE]

InitConc ==
  /\ water_status = AllOff
  /\ prev_status = AllOff
  /\ request = NoRequest
  /\ response = NoReply
  /\ served = 0
  /\ repeated = FALSE
  /\ posted = <<>>
  /\ threads \in [Threads -> {Received(ConcMessages[i]) : i \in 1 .. Len(ConcMessages)}]

\* the other handler is between two iterations of its loop
MidLoop(th) == th.phase = "loop" /\ th.k > 1

\* thread t writes: the other one is crossed if it is between two iterations
Crossing(t, wrote) ==
  [threads[Other(t)] EXCEPT !.crossed = @ \/ (wrote /\ MidLoop(threads[Other(t)]))]

\* the handler of thread t up to its loop, for the command u and its codes
EnterWith(t, u, plant_codes, value) ==
  IF u.intent \in {"TurnOnWater", "TurnOffWater"} /\ InSeq("all", plant_codes)
  THEN /\ water_status' = WriteAll(water_status, value, u.bed_index)
       /\ threads' = [threads EXCEPT ![t].phase = "done",
                                     ![Other(t)] = Crossing(t, TRUE)]
  ELSE IF u.intent \in {"TurnOnWater", "TurnOffWater"} /\ plant_codes # <<>>
  THEN /\ threads' = [threads EXCEPT ![t].phase = "loop",
                                     ![t].plant_codes = plant_codes,
                                     ![t].value = value,
                                     ![t].bed_index = u.bed_index]
       /\ UNCHANGED water_status
  ELSE /\ threads' = [threads EXCEPT ![t].phase = "done"]
       /\ UNCHANGED water_status

\* what the branch of lines 155-188 writes: the intensity, or 0 to turn off
ValueOf(u) == IF u.intent = "TurnOnWater" THEN u.intensity ELSE 0

EnterAs(t, u) == EnterWith(t, u, PlantCodes(u.plant_names), ValueOf(u))

\* lines 215-227 and 146-161, 173-179, 190-198: all of the handler but the loop
Enter(t) ==
  /\ threads[t].phase = "received"
  /\ EnterAs(t, Understand(threads[t].message))
  /\ UNCHANGED <<prev_status, request, response, served, repeated, posted>>

\* one iteration of the loop of lines 163-169 or 181-186
Step(t) ==
  /\ threads[t].phase = "loop"
  /\ LET th == threads[t]
     IN /\ water_status' = WritePlant(water_status, th.plant_codes[th.k], th.value, th.bed_index)
        /\ threads' = [threads EXCEPT
                         ![t].k = th.k + 1,
                         ![t].phase = IF th.k = Len(th.plant_codes) THEN "done" ELSE "loop",
                         ![Other(t)] = Crossing(t, TRUE)]
  /\ UNCHANGED <<prev_status, request, response, served, repeated, posted>>

NextConc == \E t \in Threads : Enter(t) \/ Step(t)

SpecConc == InitConc /\ [][NextConc]_vars

-----------------------------------------------------------------------------
(* Properties of the grid under Spec.  They speak of the last request      *)
(* (request, response) and of the grid before it (prev_status).            *)

Cells == Rows \X Cols

LastAsk == request.route = "/ask"
LastIntent == request.parsed.intent
LastNames == request.parsed.plant_names
LastBed == request.parsed.bed_index
LastMessage == request.data.message

\* the last request went through lines 224-228
Processed == LastAsk /\ LastIntent # ""

SpecificNames == {"basil", "beans", "beetroot", "carrot", "tomato"}

\* the catalog code of a plant name, read off plant_map
CatalogCode(name) ==
  CASE name = "basil" -> "Ba" [] name = "beans" -> "Be" [] name = "beetroot" -> "Bt"
    [] name = "carrot" -> "Ca" [] name = "tomato" -> "To" [] OTHER -> "all"

\* the cell (r, c) is one that a command for plant_names and bed_index addresses
Addressed(plant_names, bed_index, r, c) ==
  /\ bed_index = None \/ r = bed_index
  /\ \E i \in 1 .. Len(plant_names) :
        plant_names[i] = "all" \/ CatalogCode(plant_names[i]) = PlantAt(r, c)

\* the grid is the grid before the request with value in the addressed cells
WroteExactly(plant_names, bed_index, value) ==
  \A p \in Cells :
     water_status[p[1]][p[2]] =
       IF Addressed(plant_names, bed_index, p[1], p[2]) THEN value
       ELSE prev_status[p[1]][p[2]]

NumberOf(value) == Cardinality({p \in Cells : water_status[p[1]][p[2]] = value})

\* C1: the grid is always 5x5 over {0,1,2}, so its drip, shower and off counts add
\* up to 25; a GetStatus request reports the number of cells at 1 as drip, the
\* number at 2 as shower and 25 as the total, and GET /get_status returns the grid.
C1_StatusAccounting ==
  /\ water_status \in [Rows -> [Cols -> {0, 1, 2}]]
  /\ Cardinality(Rows) = 5 /\ Cardinality(Cols) = 5
  /\ NumberOf(1) + NumberOf(2) + NumberOf(0) = 25
  /\ (Processed /\ LastIntent = "GetStatus") =>
        /\ response.text = "Current watering status"
        /\ response.drip = NumberOf(1)
        /\ response.shower = NumberOf(2)
        /\ response.total = 25
  /\ request.route = "/get_status" => response.names = water_status

\* a GetStatus request on a grid with some but not all cells at SHOWER
C1_Witness ==
  /\ Processed /\ LastIntent = "GetStatus"
  /\ response.shower > 0 /\ response.shower < 25
  /\ response.drip = 0

\* C2: TurnOnWater for specific plants writes the intensity to exactly the cells
\* whose layout code is the code of a named plant, in row b when a bed index b is
\* given and grid-wide otherwise; every other cell keeps its value.
C2_TurnOnScoped ==
  (Processed /\ LastIntent = "TurnOnWater" /\ ~InSeq("all", LastNames)) =>
     /\ \A i \in 1 .. Len(LastNames) : LastNames[i] \in SpecificNames
     /\ WroteExactly(LastNames, LastBed, request.parsed.intensity)

\* "turn on basil ... bed 2" on a grid that was not all OFF: only the Ba cell of
\* row 1 can have changed, and it did
C2_Witness ==
  /\ Processed /\ LastIntent = "TurnOnWater"
  /\ LastNames = <<"basil">> /\ LastBed = 1
  /\ prev_status # AllOff
  /\ water_status[1][2] # prev_status[1][2]
  /\ \E p \in Cells : p[1] = 1 /\ prev_status[p[1]][p[2]] # 0 /\ water_status[p[1]][p[2]] # water_status[1][2]

HasShowerKeyword(message) == AnyIn(shower_keywords, lower(message))
HasDripKeyword(message) == AnyIn(drip_keywords, lower(message))

\* C3: TurnOnWater for "all" sets every cell (every cell of row b when a bed index
\* b is given, leaving the other rows) to SHOWER when the message has a shower
\* keyword, also beside a drip keyword, and to DRIP otherwise.
C3_TurnOnAll ==
  (Processed /\ LastIntent = "TurnOnWater" /\ InSeq("all", LastNames)) =>
     \A p \in Cells :
        water_status[p[1]][p[2]] =
          IF LastBed = None \/ p[1] = LastBed
          THEN (IF HasShowerKeyword(LastMessage) THEN 2 ELSE 1)
          ELSE prev_status[p[1]][p[2]]

\* "turn on all plants ... light spray" without a bed, on a grid that was not
\* uniform: a drip and a shower keyword, and all 25 cells are at SHOWER
C3_Witness ==
  /\ Processed /\ LastIntent = "TurnOnWater" /\ LastNames = <<"all">> /\ LastBed = None
  /\ HasShowerKeyword(LastMessage) /\ HasDripKeyword(LastMessage)
  /\ NumberOf(2) = 25
  /\ \E p \in Cells, q \in Cells : prev_status[p[1]][p[2]] # prev_status[q[1]][q[2]]

\* the cells a TurnOnWater call for plant_names and bed_index writes
TurnOnWrites(plant_names, bed_index) ==
  {p \in Cells :
     process_command("TurnOnWater", plant_names, 2, bed_index, AllOff).status[p[1]][p[2]] = 2}

\* C4: TurnOffWater changes exactly the cells a TurnOnWater with the same plants
\* and bed index writes, and sets them to OFF whatever intensity keyword the
\* message has; all other cells are unchanged.
C4_TurnOffMirrorsTurnOn ==
  (Processed /\ LastIntent = "TurnOffWater") =>
     \A p \in Cells :
        water_status[p[1]][p[2]] =
          IF p \in TurnOnWrites(LastNames, LastBed) THEN 0 ELSE prev_status[p[1]][p[2]]

\* a turn-off with a shower keyword in its message that switched off some, not all,
\* of the cells that were on
C4_Witness ==
  /\ Processed /\ LastIntent = "TurnOffWater"
  /\ HasShowerKeyword(LastMessage)
  /\ \E p \in Cells : prev_status[p[1]][p[2]] # 0 /\ water_status[p[1]][p[2]] = 0
  /\ \E p \in Cells : water_status[p[1]][p[2]] # 0

\* C5: the same TurnOnWater request twice in a row leaves the grid of the first.
C5_TurnOnIdempotent ==
  (repeated /\ Processed /\ LastIntent = "TurnOnWater") => water_status = prev_status

\* a repeated turn-on for plants of one bed, which wrote something the first time
C5_Witness ==
  /\ repeated /\ Processed /\ LastIntent = "TurnOnWater"
  /\ ~InSeq("all", LastNames) /\ LastBed # None
  /\ water_status # AllOff

\* C6: only TurnOnWater and TurnOffWater requests change the grid: GetStatus,
\* Unknown, an empty or missing message and a failing request leave every cell.
C6_OnlyOnOffWrite ==
  /\ water_status # prev_status => Processed /\ LastIntent \in {"TurnOnWater", "TurnOffWater"}
  /\ (LastAsk /\ Falsy(request.data)) => response.text = "Please send a message."
  /\ (LastAsk /\ ~Processed /\ ~Falsy(request.data)) =>
        response.text = "Sorry, I encountered an error."

\* an Unknown request with a bed in its message, after a request that wrote
C6_Witness ==
  /\ Processed /\ LastIntent = "Unknown" /\ LastBed # None
  /\ prev_status # AllOff
  /\ water_status = prev_status

-----------------------------------------------------------------------------
(* Properties of two concurrent handlers under SpecConc.                    *)

BothDone == \A t \in Threads : threads[t].phase = "done"

\* what thread t was asked, as lines 224-227 extract it
Asked(t) == Understand(threads[t].message)

\* thread t runs a turn-on or turn-off that addresses the cell (r, c)
Targets(t, r, c) ==
  /\ Asked(t).intent \in {"TurnOnWater", "TurnOffWater"}
  /\ Addressed(Asked(t).plant_names, Asked(t).bed_index, r, c)

\* the value thread t writes: its intensity to turn on, 0 to turn off
Writes(t) == IF Asked(t).intent = "TurnOnWater" THEN Asked(t).intensity ELSE 0

\* the grid after the request first and then the request second, one after the other
InOrder(first, second) ==
  ask(TextMessage(second), ask(TextMessage(first), AllOff, Understand(first)).status,
      Understand(second)).status

Serial == {InOrder(threads[1].message, threads[2].message),
           InOrder(threads[2].message, threads[1].message)}

\* C7: with each per-plant-code write as one atomic step, two concurrent requests
\* leave in every cell the value of a request that addresses it (0 if none does),
\* and the grid of one of the two sequential orders whenever no write of one
\* request falls between two loop iterations of the other; a write that does
\* fall between them can leave a grid that neither sequential order produces.
C7_InterleavedWrites ==
  BothDone =>
    /\ \A p \in Cells :
          IF \E t \in Threads : Targets(t, p[1], p[2])
          THEN \E t \in Threads : Targets(t, p[1], p[2]) /\ water_status[p[1]][p[2]] = Writes(t)
          ELSE water_status[p[1]][p[2]] = 0
    /\ (\A t \in Threads : ~threads[t].crossed) => water_status \in Serial

\* both requests are done, the Ba cells hold the value of one and the Ca cells the
\* value of the other, and the grid is the result of neither sequential order
C7_Witness ==
  /\ BothDone
  /\ water_status \notin Serial
  /\ \E t \in Threads :
        /\ Writes(t) # Writes(Other(t))
        /\ \A p \in Cells :
              /\ PlantAt(p[1], p[2]) = "Ba" => water_status[p[1]][p[2]] = Writes(t)
              /\ PlantAt(p[1], p[2]) = "Ca" => water_status[p[1]][p[2]] = Writes(Other(t))
-----------------------------------------------------------------------------
(* Properties of the parsers when one text is posted to /ask: of the plant  *)
(* extractor under SpecPlants, of the classifier under SpecIntent, of the   *)
(* location parser under SpecLocation.                                      *)

Answered == served = 1
Lowered == lower(posted)
Utterance == TokensFrom(Lowered, 1)

\* the catalog name of a plant code, read off plant_map
CatalogName(code) ==
  CASE code = "Ba" -> "basil" [] code = "Be" -> "beans" [] code = "Bt" -> "beetroot"
    [] code = "Ca" -> "carrot" [] code = "To" -> "tomato" [] OTHER -> ""

\* the plant a token names exactly, "" when it is no synonym
ExactPlant(token) ==
  IF SynonymIndex(token) = 0 THEN "" ELSE CatalogName(PLANT_SYNONYMS[SynonymIndex(token)][2])

\* the plant of the synonym a token is close to, "" when it is close to none
PlantOfMatch(close) ==
  IF close = 0 THEN "" ELSE CatalogName(PLANT_SYNONYMS[close][2])

\* the plant a token names approximately
ClosePlant(token) == PlantOfMatch(get_close_matches(token, synonyms_list))

SomeExact(tokens) == \E k \in 1 .. Len(tokens) : ExactPlant(tokens[k]) # ""

\* the plant each token stands for: approximate matching only when no token of
\* the utterance matches exactly
PlantsOfTokens(tokens) ==
  IF SomeExact(tokens)
  THEN [k \in 1 .. Len(tokens) |-> ExactPlant(tokens[k])]
  ELSE [k \in 1 .. Len(tokens) |-> ClosePlant(tokens[k])]

PlantsNamed(plants) == {plants[k] : k \in DOMAIN plants} \ {""}

FirstSeen(plants, name) == Min({k \in DOMAIN plants : plants[k] = name})

HasAllKeyword == AnyIn(all_keywords, Lowered)

\* names is non-empty, just "all" or duplicate-free specific plants, and the
\* plants that the tokens stand for in the order they are first seen
PlantsOrAll(names, plants) ==
  /\ names # <<>>
  /\ \/ names = <<"all">>
     \/ /\ \A i \in 1 .. Len(names) : names[i] \in SpecificNames
        /\ \A i, j \in 1 .. Len(names) : i # j => names[i] # names[j]
  /\ PlantsNamed(plants) = {} => names = <<"all">>
  /\ PlantsNamed(plants) # {} =>
        /\ {names[i] : i \in 1 .. Len(names)} = PlantsNamed(plants)
        /\ \A i, j \in 1 .. Len(names) :
              i < j => FirstSeen(plants, names[i]) < FirstSeen(plants, names[j])

\* C8: for a non-empty utterance extract_plants returns a non-empty result, either
\* just "all" or the duplicate-free specific plants in first-seen order; "all"
\* when no token matches exactly or approximately, with or without an all-keyword;
\* an all-keyword is ignored when a plant was found; /ask never replies that the
\* plants are not recognized.
C8_PlantsOrAll ==
  Answered =>
    /\ PlantsOrAll(LastNames, PlantsOfTokens(Utterance))
    /\ response.text # "Sorry, I don't recognize those plants."

\* a text with an all-keyword between two plants: the two plants come back, in
\* the order they were seen, without "all"
C8_Witness ==
  /\ Answered
  /\ HasAllKeyword
  /\ Len(LastNames) = 2
  /\ FirstSeen(PlantsOfTokens(Utterance), LastNames[1])
       < FirstSeen(PlantsOfTokens(Utterance), LastNames[2])

-----------------------------------------------------------------------------
(* The classifier, stated over the words of the text.                       *)

\* the positions of s where a word starts: a maximal run of letters, digits and "_"
WordStarts(s) ==
  {i \in 1 .. Len(s) : IsWordChar(s[i]) /\ (i = 1 \/ ~IsWordChar(s[i - 1]))}

\* the last position of the word that starts at i
WordEnd(s, i) == Min({e \in i .. Len(s) : e = Len(s) \/ ~IsWordChar(s[e + 1])})

\* the words of s, as <<first, last>>
WordRuns(s) == {<<i, WordEnd(s, i)>> : i \in WordStarts(s)}

IsWord(s, run, word) == SubSeq(s, run[1], run[2]) = word

\* the word first, then only whitespace, then the word second
PhraseIn(s, runs, first, second) ==
  \E a, b \in runs :
     /\ IsWord(s, a, first) /\ IsWord(s, b, second)
     /\ a[2] < b[1]
     /\ \A k \in (a[2] + 1) .. (b[1] - 1) : IsSpace(s[k])

\* the word "water" and later the word "on"
WaterThenOn(s, runs) ==
  \E a, b \in runs :
     IsWord(s, a, <<"w","a","t","e","r">>) /\ IsWord(s, b, <<"o","n">>) /\ a[2] < b[1]

\* the word "water" and later on the same line the word "on"
WaterThenOnInLine(s, runs) ==
  \E a, b \in runs :
     /\ IsWord(s, a, <<"w","a","t","e","r">>) /\ IsWord(s, b, <<"o","n">>) /\ a[2] < b[1]
     /\ \A k \in (a[2] + 1) .. (b[1] - 1) : s[k] # "\n"

\* the terms of the three keyword sets, each term as its words
OnTerms ==
  << <<<<"s","t","a","r","t">>>>, <<<<"a","c","t","i","v","a","t","e">>>>, <<<<"o","p","e","n">>>>, <<<<"b","e","g","i","n">>>>, <<<<"e","n","a","b","l","e">>>>, <<<<"o","n">>>> >>
OffTerms ==
  << <<<<"s","t","o","p">>>>, <<<<"d","e","a","c","t","i","v","a","t","e">>>>, <<<<"c","l","o","s","e">>>>, <<<<"e","n","d">>>>, <<<<"d","i","s","a","b","l","e">>>>, <<<<"o","f","f">>>> >>
StatusTerms ==
  << <<<<"s","t","a","t","u","s">>>>, <<<<"c","h","e","c","k">>>>, <<<<"h","o","w">>, <<"a","r","e">>>>, <<<<"w","h","a","t">>, <<"i","s">>>>, <<<<"r","e","p","o","r","t">>>> >>

\* the term stands in s as whole words, with the word a as its first word; the
\* words of a two-word term are one blank apart
TermAt(s, runs, term, a) ==
  /\ IsWord(s, a, term[1])
  /\ Len(term) = 2 =>
        \E b \in runs :
           IsWord(s, b, term[2]) /\ b[1] = a[2] + 2 /\ s[a[2] + 1] = " "

\* the whole-word occurrences of the terms in s
Occurrences(s, runs, terms) ==
  Cardinality({o \in (1 .. Len(terms)) \X runs : TermAt(s, runs, terms[o[1]], o[2])})

\* the terms that occur in s as whole words
TermsPresent(s, runs, terms) ==
  Cardinality({t \in 1 .. Len(terms) : \E a \in runs : TermAt(s, runs, terms[t], a)})

\* the set whose count is strictly greater than both others, Unknown on a tie
Winner(on, off, status) ==
  CASE on > off /\ on > status -> "TurnOnWater"
    [] off > on /\ off > status -> "TurnOffWater"
    [] status > on /\ status > off -> "GetStatus"
    [] OTHER -> "Unknown"

TurnOffPhrase(s, runs) ==
  PhraseIn(s, runs, <<"t","u","r","n">>, <<"o","f","f">>) \/ PhraseIn(s, runs, <<"t","u","r","n">>, <<"o","f">>)

\* the three rules in order, the sets scored by the occurrences of their terms
ByOccurrences(s, runs) ==
  IF TurnOffPhrase(s, runs) THEN "TurnOffWater"
  ELSE IF PhraseIn(s, runs, <<"t","u","r","n">>, <<"o","n">>) \/ WaterThenOn(s, runs) THEN "TurnOnWater"
  ELSE Winner(Occurrences(s, runs, OnTerms), Occurrences(s, runs, OffTerms),
              Occurrences(s, runs, StatusTerms))

\* the three rules in order, "on" on the line of "water", the sets scored by how
\* many of their terms occur
ByTermsPresent(s, runs) ==
  IF TurnOffPhrase(s, runs) THEN "TurnOffWater"
  ELSE IF PhraseIn(s, runs, <<"t","u","r","n">>, <<"o","n">>) \/ WaterThenOnInLine(s, runs) THEN "TurnOnWater"
  ELSE Winner(TermsPresent(s, runs, OnTerms), TermsPresent(s, runs, OffTerms),
              TermsPresent(s, runs, StatusTerms))

IntentByOccurrences(s) == ByOccurrences(s, WordRuns(s))
IntentByTermsPresent(s) == ByTermsPresent(s, WordRuns(s))

\* no explicit phrase, an on-term twice and an off-term once
TwoOnOneOff(s, runs) ==
  /\ ~TurnOffPhrase(s, runs) /\ ~PhraseIn(s, runs, <<"t","u","r","n">>, <<"o","n">>) /\ ~WaterThenOn(s, runs)
  /\ Occurrences(s, runs, OnTerms) = 2 /\ TermsPresent(s, runs, OnTerms) = 1
  /\ Occurrences(s, runs, OffTerms) = 1

\* C9 as stated: rule (1) "turn off" or "turn of", rule (2) "turn on" or "water"
\* followed later by "on", rule (3) the keyword sets scored by counting the
\* whole-word occurrences of their terms.
C9_Original == Answered => LastIntent = IntentByOccurrences(Lowered)

\* C9: rule (1) "turn off" or "turn of" gives TurnOffWater; otherwise rule (2)
\* "turn on", or "water" followed later on the same line by "on", gives
\* TurnOnWater; otherwise rule (3) each keyword set is scored by the number of its
\* terms that occur as whole words, however often each occurs, and the strictly
\* greatest score gives the intent, a tie or all zero Unknown.
C9_Amended == Answered => LastIntent = IntentByTermsPresent(Lowered)

\* no explicit phrase, an on-term that occurs twice and one off-term that occurs
\* once: one term of each set is present, and the intent is Unknown
C9_Witness ==
  /\ Answered
  /\ TwoOnOneOff(Lowered, WordRuns(Lowered))
  /\ LastIntent = "Unknown"

-----------------------------------------------------------------------------
(* The location parser, stated over the forms "bed <number>" and            *)
(* "bed <number word>" that stand in the text.                              *)

\* the positions of s where "bed" stands
BedStarts(s) == {i \in 1 .. (Len(s) - 2) : SubSeq(s, i, i + 2) = <<"b","e","d">>}

\* whitespace from after the "bed" at position i up to position j, where more follows
ThenAt(s, i, j) ==
  /\ j > i + 3 /\ j <= Len(s)
  /\ \A k \in (i + 3) .. (j - 1) : IsSpace(s[k])

\* the "bed" positions with their first digit: <<position of "bed", first digit>>
DigitStarts(s) ==
  {f \in BedStarts(s) \X (1 .. Len(s)) : ThenAt(s, f[1], f[2]) /\ IsDigit(s[f[2]])}

\* the last digit of the number that starts at position j
DigitEnd(s, j) == Min({e \in j .. Len(s) : e = Len(s) \/ ~IsDigit(s[e + 1])})

\* the digit forms of s, as <<position of "bed", first digit, last digit>>
DigitForms(s) == {<<f[1], f[2], DigitEnd(s, f[2])>> : f \in DigitStarts(s)}

\* the number-word forms of s, as <<position of "bed", number>>
WordForms(s) ==
  {f \in BedStarts(s) \X (1 .. 5) :
     \E j \in 1 .. Len(s) :
        /\ ThenAt(s, f[1], j)
        /\ j + Len(words_to_num[f[2]][1]) - 1 <= Len(s)
        /\ SubSeq(s, j, j + Len(words_to_num[f[2]][1]) - 1) = words_to_num[f[2]][1]}

\* the first form of a non-empty set of forms
First(forms) == CHOOSE f \in forms : \A g \in forms : f[1] <= g[1]

\* the number of a digit form
NumberAt(s, form) == IntOf(s, form[2], form[3])

InGrid(n) == 1 <= n /\ n <= 5

\* one pattern per call: the digit form decides when there is one
ByOnePattern(s, digits, words) ==
  IF digits # {}
  THEN (IF InGrid(NumberAt(s, First(digits))) THEN NumberAt(s, First(digits)) - 1 ELSE None)
  ELSE IF words # {} THEN First(words)[2] - 1
  ELSE None

\* the digit form decides when its number is a bed, the number-word form otherwise
ByBothPatterns(s, digits, words) ==
  IF digits # {} /\ InGrid(NumberAt(s, First(digits))) THEN NumberAt(s, First(digits)) - 1
  ELSE IF words # {} THEN First(words)[2] - 1
  ELSE None

LocationByOnePattern(s) == ByOnePattern(s, DigitForms(s), WordForms(s))
LocationByBothPatterns(s) == ByBothPatterns(s, DigitForms(s), WordForms(s))

\* a digit form with a number that is no bed beside a number-word form, and row
OutOfRangeThenWord(s, digits, words, row) ==
  /\ digits # {} /\ ~InGrid(NumberAt(s, First(digits)))
  /\ words # {}
  /\ row = First(words)[2] - 1

\* C10 as stated: the result is no location or a row index in 0..4; with a digit
\* form "bed n" it is n-1 if 1 <= n <= 5 and no location otherwise, without
\* consulting the number-word form, which decides only when no digit form is there.
C10_Original ==
  Answered => LastBed \in {None} \cup (0 .. 4) /\ LastBed = LocationByOnePattern(Lowered)

\* C10: the result is no location or a row index in 0..4; when the first digit
\* form "bed n" has 1 <= n <= 5 it is n-1; otherwise, with no digit form or with n
\* out of range, the first number-word form "bed one" .. "bed five" decides, and
\* the result is no location when there is none.
C10_Amended ==
  Answered => LastBed \in {None} \cup (0 .. 4) /\ LastBed = LocationByBothPatterns(Lowered)

\* a digit form with a number that is no bed beside a number-word form: the
\* number word gives the row
C10_Witness ==
  /\ Answered
  /\ OutOfRangeThenWord(Lowered, DigitForms(Lowered), WordForms(Lowered), LastBed)
====
